---- MODULE Spec2Model ----
(***************************************************************************)
(* A model of script.py: the batch loop of AccountCreator.run, one attempt *)
(* of AccountCreator.run_single_account (try / except / finally), the     *)
(* retry loop of BasePage.robust_goto, the page objects' steps, the       *)
(* BrowserManager and the CsvOutputWriter.                                 *)
(*                                                                         *)
(* The browser, the page and the file system are the environment: every   *)
(* call into them either returns or raises one of the error kinds of      *)
(* ErrKinds, chosen with \E.                                               *)
(***************************************************************************)
EXTENDS Integers, Sequences, FiniteSets, TLC

\* ---------------------------------------------------------------- bounds
MaxQueue == 2            \* longest phone-number queue explored by Spec
MaxNavRetries == 5       \* largest MAX_NAV_RETRIES explored by NavSpec
MaxLog == 5              \* BrowserSpec makes no call once its log holds MaxLog entries

\* ------------------------------------------------------------- constants
DefaultMaxNavRetries == 3   \* BotConfig.MAX_NAV_RETRIES: int = 3
BackoffCap == 8          \* min(2 * attempt, 8)
BackoffFactor == 2
FlatBackoff == 1         \* time.sleep(1.0 + jitter) after a non-timeout error

SIGNUP_URL == "https://app.calebandbrown.com/signup"

None == "None"
PhonePool == <<"+15550000001", "+15550000002", "+15550000003", "+15550000004">>
CSV_FIELDS == [phone_used |-> "phone_used", notes |-> "notes"]
OldRow == [phone_used |-> "+15559999999", notes |-> "nav_failed"]

\* Exceptions the environment's calls raise: PlaywrightTimeoutError, an Error
\* whose message holds "Target closed" / "Browser has been closed", and any
\* other Error.
ErrKinds == {"TimeoutError", "TargetClosedError", "Error"}
Outcomes == {"ok"} \cup ErrKinds
\* Exceptions raised by the script itself with raise Exception("...").
OwnKinds == {"NavigationFailed", "FormFillFailed", "SubmitFailed", "BrowserNotLaunched"}

Fields == <<"first_name", "last_name", "email", "password", "confirm_password">>

\* What page.url can be after the submit: <<url without query, query>>.
Urls == { <<SIGNUP_URL, "">>, <<SIGNUP_URL, "?step=2">>,
          <<"https://app.calebandbrown.com/verify-email", "">> }

\* What page.content() can be: the page's text, in pieces; a phrase is in
\* the text when it is one of the pieces.
Contents == { << "Welcome", "back" >>,
              << "Please", "Verify", "your", "account" >>,
              << "CHECK YOUR EMAIL" >>,
              << "Create", "account" >> }

\* The post-submit classification has read nothing.
NoPage == [content |-> << >>, url |-> << "", "" >>, idle |-> FALSE]

VARIABLES
    config,          \* BotConfig: HEADLESS, KEEP_BROWSER_OPEN_ON_SUCCESS, MAX_NAV_RETRIES
    phone_numbers,   \* the list given to AccountCreator.run
    pc,              \* position of the program
    loop_i,          \* index of the for loop of run (next phone to attempt)
    account_index,   \* AccountCreator.account_index
    phone_number,    \* data.phone of the current attempt (None when absent)
    notes,           \* local notes of run_single_account
    context,         \* local context of run_single_account: 0 is None, else a context id
    open_contexts,   \* the contexts that exist and are not closed
    browser,         \* BrowserManager.browser: 0 is None, 1 a launched browser
    exc,             \* the exception in flight ("none" when there is none)
    ret,             \* how run_single_account leaves: "True", "False", "raise", "none"
    trace,           \* the calls of the current attempt, in order, with their result
    closed_at,       \* the stage of this attempt that last raised a browser-closed error
                     \* with no relaunch of the browser since ("none": there is none)
    nav_attempt,     \* local attempt of robust_goto
    nav_log,         \* per load attempt of robust_goto: what goto, the idle wait and the cleanup did
    backoffs,        \* the whole seconds slept by robust_goto, before jitter
    nav_result,      \* what robust_goto returned: "True", "False" ("none" while it runs)
    csv_exists,      \* whether OUTPUT_CSV exists
    csv,             \* the lines of OUTPUT_CSV
    csv_base,        \* the number of lines when the run started writing rows
    csv_mark,        \* the number of lines when the current attempt started
    attempted,       \* the phone_number argument of every attempt so far
    io_errors,       \* the number of write_row calls whose append failed
    processes,       \* the browser processes chromium.launch() started and
                     \* browser.close() was not called on
    page             \* what the post-submit classification read from the page
                     \* (NoPage: it has read nothing)

vars == << config, phone_numbers, pc, loop_i, account_index, phone_number, notes,
           context, open_contexts, browser, exc, ret, trace, closed_at,
           nav_attempt, nav_log, backoffs, nav_result,
           csv_exists, csv, csv_base, csv_mark, attempted, io_errors,
           processes, page >>

\* ---------------------------------------------------------------- helpers
Min(a, b) == IF a <= b THEN a ELSE b

Ev(op, ok) == [op |-> op, ok |-> ok]

Has(op) == \E i \in DOMAIN trace : trace[i].op = op
HasOk(op, ok) == \E i \in DOMAIN trace : trace[i] = Ev(op, ok)
Count(op) == Cardinality({ i \in DOMAIN trace : trace[i].op = op })
\* every op1 event is preceded by an op2 event with result ok
Before(op2, ok, op1) ==
    \A i \in DOMAIN trace : trace[i].op = op1 =>
        \E j \in 1..(i - 1) : trace[j] = Ev(op2, ok)

\* type(e).__name__
TypeName(k) == IF k \in OwnKinds THEN "Exception" ELSE k

\* "Target closed" in str(e) or "Browser has been closed" in str(e)
IsBrowserClosed(k) == k = "TargetClosedError"

\* str(data.phone) in place of data.phone or ""
PhoneUsed_str(p) == p

\* data.phone or ""
PhoneUsed(p) == IF p = None THEN "" ELSE p

\* KEEP_BROWSER_OPEN_ON_SUCCESS and not HEADLESS
KeepOpen == config.KEEP_BROWSER_OPEN_ON_SUCCESS /\ ~config.HEADLESS

Closed(stage, kinds) ==
    IF "TargetClosedError" \in kinds THEN stage ELSE closed_at

\* ------------------------------------------------------------------- Init
Queues(n) == { SubSeq(PhonePool, 1, k) : k \in 0..n }

\* The objects main constructs: BotConfig, the phone numbers read, the
\* BrowserManager (browser None), the AccountCreator (account_index 0), and
\* the output file as earlier runs left it.
Constructed(retries, queues) ==
    /\ config \in [ HEADLESS : BOOLEAN,
                    KEEP_BROWSER_OPEN_ON_SUCCESS : BOOLEAN,
                    MAX_NAV_RETRIES : retries ]
    /\ phone_numbers \in queues
    /\ loop_i = 1
    /\ account_index = 0
    /\ phone_number = None
    /\ notes = "init"
    /\ context = 0
    /\ open_contexts = {}
    /\ browser = 0
    /\ exc = "none"
    /\ ret = "none"
    /\ trace = << >>
    /\ closed_at = "none"
    /\ nav_attempt = 0
    /\ nav_log = << >>
    /\ backoffs = << >>
    /\ nav_result = "none"
    /\ \/ csv_exists = FALSE /\ csv = << >>
       \/ csv_exists = TRUE /\ csv = << CSV_FIELDS, OldRow >>
    /\ csv_base = 0
    /\ csv_mark = 0
    /\ attempted = << >>
    /\ io_errors = 0
    /\ processes = 0
    /\ page = NoPage

InitWith(retries, queues) == Constructed(retries, queues) /\ pc = "main"

\* The runs explored: every queue up to MaxQueue numbers with the default
\* MAX_NAV_RETRIES, under every HEADLESS and KEEP_BROWSER_OPEN_ON_SUCCESS on
\* a fresh output file, and under the default two on the file of an earlier
\* run.
Init ==
    /\ InitWith({DefaultMaxNavRetries}, Queues(MaxQueue))
    /\ csv_exists => ~config.HEADLESS /\ ~config.KEEP_BROWSER_OPEN_ON_SUCCESS

\* --------------------------------------------------------- BrowserManager
\* launch() with the "if self.browser: return" left out.
launch_always(b, r) ==
    IF r = "ok" THEN [browser |-> 1, exc |-> "none", started |-> 1]
    ELSE [browser |-> b, exc |-> r, started |-> 0]

\* launch(): a no-op when a browser is held; else chromium.launch() returns
\* (r = "ok") or raises r, which launch logs and re-raises. started is the
\* number of browser processes the call started.
launch(b, r) ==
    IF b # 0 THEN [browser |-> b, exc |-> "none", started |-> 0]
    ELSE IF r = "ok" THEN [browser |-> 1, exc |-> "none", started |-> 1]
    ELSE [browser |-> 0, exc |-> r, started |-> 0]

\* shutdown() without the try around browser.close(): its error leaves the
\* method before self.browser = None.
shutdown_raising(b, oc, r) ==
    IF b # 0 /\ r # "ok" THEN [browser |-> b, open |-> {}, exc |-> r, closed |-> 1]
    ELSE IF b # 0 THEN [browser |-> 0, open |-> {}, exc |-> "none", closed |-> 1]
    ELSE [browser |-> 0, open |-> oc, exc |-> "none", closed |-> 0]

\* shutdown(): with a browser held, browser.close() (r) ends the browser and
\* every context of it (an error it raises is swallowed: the browser is then
\* already gone, and its contexts with it) and self.browser = None; with none
\* held, nothing. closed is the number of browser.close() calls made; exc is
\* what the method raises.
shutdown(b, oc, r) ==
    IF b # 0 THEN [browser |-> 0, open |-> {}, exc |-> "none", closed |-> 1]
    ELSE [browser |-> 0, open |-> oc, exc |-> "none", closed |-> 0]

\* close_context(context): context.close(), its error swallowed (it is raised
\* when the context is already gone).
close_context(oc, c) == oc \ {c}

\* new_context() whose retry is the method itself: a failed second creation
\* shuts down, relaunches and creates once more.
new_context_nested_retry(b, oc, id, r1, c, l, r2) ==
    IF b = 0 THEN
        [browser |-> 0, open |-> oc, context |-> 0, exc |-> "BrowserNotLaunched",
         events |-> << Ev("new_context", FALSE) >>, kinds |-> {}, relaunched |-> FALSE,
         started |-> 0, closed |-> 0]
    ELSE IF r1 = "ok" THEN
        [browser |-> b, open |-> oc \cup {id}, context |-> id, exc |-> "none",
         events |-> << Ev("new_context", TRUE) >>, kinds |-> {}, relaunched |-> FALSE,
         started |-> 0, closed |-> 0]
    ELSE IF l # "ok" THEN
        [browser |-> 0, open |-> {}, context |-> 0, exc |-> l,
         events |-> << Ev("new_context", FALSE), Ev("shutdown", TRUE),
                       Ev("launch", FALSE) >>,
         kinds |-> {r1, l}, relaunched |-> FALSE, started |-> 0, closed |-> 1]
    ELSE IF r2 = "ok" THEN
        [browser |-> 1, open |-> {id}, context |-> id, exc |-> "none",
         events |-> << Ev("new_context", FALSE), Ev("shutdown", TRUE),
                       Ev("launch", TRUE), Ev("new_context", TRUE) >>,
         kinds |-> {}, relaunched |-> TRUE, started |-> 1, closed |-> 1]
    ELSE
        [browser |-> 1, open |-> {}, context |-> 0, exc |-> r2,
         events |-> << Ev("new_context", FALSE), Ev("shutdown", TRUE),
                       Ev("launch", TRUE), Ev("new_context", FALSE),
                       Ev("shutdown", TRUE), Ev("launch", TRUE),
                       Ev("new_context", FALSE) >>,
         kinds |-> {r2}, relaunched |-> TRUE, started |-> 2, closed |-> 2]

\* new_context(): r1 is the first browser.new_context(), c the
\* browser.close() of the shutdown(), l the chromium.launch() of the
\* launch(), r2 the second browser.new_context(). kinds are the errors raised
\* since the browser was last launched; started and closed count the browser
\* processes started and the browser.close() calls made.
\* _setup_request_blocking swallows its errors.
new_context(b, oc, id, r1, c, l, r2) ==
    IF b = 0 THEN
        [browser |-> 0, open |-> oc, context |-> 0, exc |-> "BrowserNotLaunched",
         events |-> << Ev("new_context", FALSE) >>, kinds |-> {}, relaunched |-> FALSE,
         started |-> 0, closed |-> 0]
    ELSE IF r1 = "ok" THEN
        [browser |-> b, open |-> oc \cup {id}, context |-> id, exc |-> "none",
         events |-> << Ev("new_context", TRUE) >>, kinds |-> {}, relaunched |-> FALSE,
         started |-> 0, closed |-> 0]
    ELSE
        LET s  == shutdown(b, oc, c)
            la == launch(s.browser, l)
        IN  IF la.exc # "none" THEN
                [browser |-> la.browser, open |-> s.open, context |-> 0, exc |-> la.exc,
                 events |-> << Ev("new_context", FALSE), Ev("shutdown", TRUE),
                               Ev("launch", FALSE) >>,
                 kinds |-> {r1, l}, relaunched |-> FALSE,
                 started |-> la.started, closed |-> s.closed]
            ELSE IF r2 = "ok" THEN
                [browser |-> la.browser, open |-> s.open \cup {id}, context |-> id,
                 exc |-> "none",
                 events |-> << Ev("new_context", FALSE), Ev("shutdown", TRUE),
                               Ev("launch", TRUE), Ev("new_context", TRUE) >>,
                 kinds |-> {}, relaunched |-> TRUE,
                 started |-> la.started, closed |-> s.closed]
            ELSE
                [browser |-> la.browser, open |-> s.open, context |-> 0, exc |-> r2,
                 events |-> << Ev("new_context", FALSE), Ev("shutdown", TRUE),
                               Ev("launch", TRUE), Ev("new_context", FALSE) >>,
                 kinds |-> {r2}, relaunched |-> TRUE,
                 started |-> la.started, closed |-> s.closed]

\* ------------------------------------------------------- CsvOutputWriter
\* _initialize_file() without the test of exists(): the file is opened "w"
\* and the header written on every start.
InitOutputRewriting ==
    /\ pc = "main"
    /\ csv_exists' = TRUE
    /\ csv' = << CSV_FIELDS >>
    /\ csv_base' = 1
    /\ pc' = "launch"
    /\ UNCHANGED << config, phone_numbers, loop_i, account_index, phone_number, notes,
                    context, open_contexts, browser, exc, ret, trace, closed_at,
                    nav_attempt, nav_log, backoffs, nav_result, csv_mark, attempted,
                    io_errors, processes, page >>

\* _initialize_file(): creates the file with the header when it does not
\* exist (io = FALSE: open() raises IOError, re-raised).
InitOutput ==
    /\ pc = "main"
    /\ IF csv_exists
       THEN /\ pc' = "launch"
            /\ csv_base' = Len(csv)
            /\ UNCHANGED << csv_exists, csv >>
       ELSE \E io \in BOOLEAN :
              IF io
              THEN /\ csv_exists' = TRUE
                   /\ csv' = << CSV_FIELDS >>
                   /\ csv_base' = 1
                   /\ pc' = "launch"
              ELSE /\ pc' = "exit_error"
                   /\ UNCHANGED << csv_exists, csv, csv_base >>
    /\ UNCHANGED << config, phone_numbers, loop_i, account_index, phone_number, notes,
                    context, open_contexts, browser, exc, ret, trace, closed_at,
                    nav_attempt, nav_log, backoffs, nav_result, csv_mark, attempted,
                    io_errors, processes, page >>

\* write_row with the file opened "w": the row replaces the content.
write_row_truncating(file, row, io) == IF io THEN << row >> ELSE file

\* write_row(data): open(..., "a") and writerow; IOError and every other
\* Exception are logged and swallowed (io = FALSE).
write_row(file, row, io) == IF io THEN Append(file, row) ELSE file

\* ------------------------------------------------------------------ main
\* browser_manager.launch() of main; a raise ends the process (sys.exit(1)).
MainLaunch ==
    /\ pc = "launch"
    /\ \E r \in Outcomes :
         LET la == launch(browser, r)
         IN  /\ browser' = la.browser
             /\ processes' = processes + la.started
             /\ pc' = IF la.exc = "none" THEN "run" ELSE "exit_error"
    /\ UNCHANGED << config, phone_numbers, loop_i, account_index, phone_number, notes,
                    context, open_contexts, exc, ret, trace, closed_at,
                    nav_attempt, nav_log, backoffs, nav_result,
                    csv_exists, csv, csv_base, csv_mark, attempted,
                    io_errors, page >>

\* ------------------------------------------------------ run_single_account
\* Entry of run_single_account(phone): lines 582-589.
Enter(phone) ==
    /\ account_index' = account_index + 1
    /\ phone_number' = phone
    /\ notes' = "init"
    /\ context' = 0
    /\ exc' = "none"
    /\ ret' = "none"
    /\ trace' = << >>
    /\ closed_at' = "none"
    /\ nav_attempt' = 0
    /\ nav_log' = << >>
    /\ backoffs' = << >>
    /\ nav_result' = "none"
    /\ csv_mark' = Len(csv)
    /\ attempted' = Append(attempted, phone)
    /\ page' = NoPage
    /\ pc' = "new_context"

\* run(phone_numbers): the call for an empty list, or the next iteration of
\* the for loop.
RunNext ==
    /\ pc = "run"
    /\ IF phone_numbers = << >>
       THEN /\ Enter(None)
            /\ UNCHANGED loop_i
       ELSE IF loop_i <= Len(phone_numbers)
       THEN /\ Enter(phone_numbers[loop_i])
            /\ loop_i' = loop_i + 1
       ELSE /\ pc' = "done"
            /\ UNCHANGED << loop_i, account_index, phone_number, notes, context, exc, ret,
                            trace, closed_at, nav_attempt, nav_log, backoffs, nav_result,
                            csv_mark, attempted, page >>
    /\ UNCHANGED << config, phone_numbers, open_contexts, browser, csv_exists, csv, csv_base,
                    io_errors, processes >>

\* context = self.browser_manager.new_context()
NewContext ==
    /\ pc = "new_context"
    /\ \E r1 \in Outcomes, c \in Outcomes, l \in Outcomes, r2 \in Outcomes :
         LET res == new_context(browser, open_contexts, account_index, r1, c, l, r2)
         IN  /\ browser' = res.browser
             /\ processes' = processes + res.started - res.closed
             /\ open_contexts' = res.open
             /\ context' = res.context
             /\ exc' = res.exc
             /\ trace' = trace \o res.events
             /\ closed_at' = Closed("new_context", res.kinds)
             /\ pc' = IF res.exc = "none" THEN "new_page" ELSE "except"
    /\ UNCHANGED << config, phone_numbers, loop_i, account_index, phone_number, notes,
                    ret, nav_attempt, nav_log, backoffs, nav_result,
                    csv_exists, csv, csv_base, csv_mark, attempted,
                    io_errors, page >>

\* page = context.new_page(); signup_page = SignUpPage(page, self.config)
NewPage ==
    /\ pc = "new_page"
    /\ \E r \in Outcomes :
         /\ trace' = Append(trace, Ev("new_page", r = "ok"))
         /\ closed_at' = Closed("new_page", {r})
         /\ IF r = "ok"
            THEN /\ pc' = "navigate"
                 /\ nav_attempt' = 1
                 /\ exc' = exc
            ELSE /\ pc' = "except"
                 /\ exc' = r
                 /\ UNCHANGED nav_attempt
    /\ UNCHANGED << config, phone_numbers, loop_i, account_index, phone_number, notes,
                    context, open_contexts, browser, ret, nav_log, backoffs, nav_result,
                    csv_exists, csv, csv_base, csv_mark, attempted,
                    io_errors, processes, page >>

\* ------------------------------------------------------------ robust_goto
\* The kinds robust_goto tells apart: a PlaywrightTimeoutError, any other
\* Exception.
Abs(r) == IF r = "ok" THEN "ok" ELSE IF r = "TimeoutError" THEN "timeout" ELSE "error"

\* The try body without the inner try around the idle wait.
goto_attempt_idle_fatal(g, w) ==
    IF g # "ok" THEN g
    ELSE IF w = "ok" THEN "ok"
    ELSE w

\* The try body of one iteration: page.goto (g), then wait_for_load_state
\* ("networkidle") (w) whose PlaywrightTimeoutError alone is passed over, then
\* _optimize_loaded_page, which swallows every error of its own. The value is
\* "ok" (return True) or the exception the iteration's except clauses get.
goto_attempt(g, w) ==
    IF g # "ok" THEN g
    ELSE IF w \in {"ok", "TimeoutError"} THEN "ok"
    ELSE w

\* What one iteration did, for the log: a step not reached is "skipped".
nav_entry(g, w, c) ==
    [ goto    |-> Abs(g),
      idle    |-> IF g = "ok" THEN Abs(w) ELSE "skipped",
      cleanup |-> IF goto_attempt(g, w) = "ok" THEN Abs(c) ELSE "skipped",
      result  |-> Abs(goto_attempt(g, w)) ]

\* The backoff without its cap.
backoff_uncapped(attempt, e) ==
    IF e = "TimeoutError" THEN BackoffFactor * attempt ELSE FlatBackoff

\* The sleep of the except clause that caught e in iteration attempt.
backoff(attempt, e) ==
    IF e = "TimeoutError" THEN Min(BackoffFactor * attempt, BackoffCap)
    ELSE FlatBackoff

\* The loop written range(1, MAX_NAV_RETRIES).
LastAttemptOffByOne(attempt) == attempt >= config.MAX_NAV_RETRIES - 1

\* attempt is the last value of range(1, MAX_NAV_RETRIES + 1)
LastAttempt(attempt) == attempt >= config.MAX_NAV_RETRIES

\* One iteration of the for loop of robust_goto; after the last one, the
\* "Navigation failed" log and return False.
GotoAttempt ==
    /\ pc = "navigate"
    /\ \E g \in Outcomes, w \in Outcomes, c \in Outcomes :
         LET r == goto_attempt(g, w)
         IN  /\ nav_log' = Append(nav_log, nav_entry(g, w, c))
             /\ closed_at' = Closed("navigate",
                                    {g} \cup (IF g = "ok" THEN {w} ELSE {})
                                        \cup (IF r = "ok" THEN {c} ELSE {}))
             /\ IF r = "ok"
                THEN /\ nav_result' = "True"
                     /\ pc' = "nav_return"
                     /\ UNCHANGED << backoffs, nav_attempt >>
                ELSE /\ backoffs' = Append(backoffs, backoff(nav_attempt, r))
                     /\ IF LastAttempt(nav_attempt)
                        THEN /\ nav_result' = "False"
                             /\ pc' = "nav_return"
                             /\ UNCHANGED nav_attempt
                        ELSE /\ nav_attempt' = nav_attempt + 1
                             /\ UNCHANGED << nav_result, pc >>
    /\ UNCHANGED << config, phone_numbers, loop_i, account_index, phone_number, notes,
                    context, open_contexts, browser, exc, ret, trace,
                    csv_exists, csv, csv_base, csv_mark, attempted,
                    io_errors, processes, page >>

\* A check that sets notes and forgets the raise.
StageCheckNoRaise(ok, tag, e, next) ==
    IF ok
    THEN /\ pc' = next
         /\ UNCHANGED << notes, exc >>
    ELSE /\ notes' = tag
         /\ pc' = next
         /\ UNCHANGED exc

\* The three checks of lines 597-607, "if not <stage>: notes = tag; raise
\* Exception(e)": the raise leaves the try body for the except clause.
StageCheck(ok, tag, e, next) ==
    IF ok
    THEN /\ pc' = next
         /\ UNCHANGED << notes, exc >>
    ELSE /\ notes' = tag
         /\ exc' = e
         /\ pc' = "except"

\* if not signup_page.navigate(): notes = "nav_failed"; raise
NavigateCheck ==
    /\ pc = "nav_return"
    /\ trace' = Append(trace, Ev("navigate", nav_result = "True"))
    /\ StageCheck(nav_result = "True", "nav_failed", "NavigationFailed", "fill_form")
    /\ nav_attempt' = 0
    /\ nav_log' = << >>
    /\ backoffs' = << >>
    /\ nav_result' = "none"
    /\ UNCHANGED << config, phone_numbers, loop_i, account_index, phone_number,
                    context, open_contexts, browser, ret, closed_at,
                    csv_exists, csv, csv_base, csv_mark, attempted,
                    io_errors, processes, page >>

\* -------------------------------------------------------------- SignUpPage
\* select_country that runs the scripted strategy whatever the typed one
\* returned.
select_country_both(t, j) ==
    << Ev("select_country_by_typing", t), Ev("select_country_by_js", j),
       Ev("select_country", t \/ j) >>

\* select_country: the typed strategy (t), then the scripted one (j) only
\* when the typed one failed; each strategy swallows its errors.
select_country(t, j) ==
    IF t THEN << Ev("select_country_by_typing", TRUE), Ev("select_country", TRUE) >>
    ELSE << Ev("select_country_by_typing", FALSE), Ev("select_country_by_js", j),
            Ev("select_country", j) >>

\* The fills of fill_form, in order; the f-th raises (f = 0: none does).
RECURSIVE fills(_, _)
fills(i, f) ==
    IF i > Len(Fields) THEN << >>
    ELSE IF i = f THEN << Ev("fill_" \o Fields[i], FALSE) >>
    ELSE << Ev("fill_" \o Fields[i], TRUE) >> \o fills(i + 1, f)

\* fill_form that gives up when select_country returned False.
fill_form_country_fatal(t, j, f) ==
    IF t \/ j
    THEN [ ok     |-> f = 0,
           events |-> << Ev("close_common_popups", TRUE) >> \o select_country(t, j)
                      \o fills(1, f) \o << Ev("fill_form", f = 0) >> ]
    ELSE [ ok     |-> FALSE,
           events |-> << Ev("close_common_popups", TRUE) >> \o select_country(t, j)
                      \o << Ev("fill_form", FALSE) >> ]

\* fill_form without its try: the fill that raised is passed over and the
\* fields after it are filled.
fill_form_keep_going(t, j, f) ==
    [ ok     |-> f = 0,
      events |-> << Ev("close_common_popups", TRUE) >> \o select_country(t, j)
                 \o [ i \in 1..Len(Fields) |-> Ev("fill_" \o Fields[i], i # f) ]
                 \o << Ev("fill_form", f = 0) >> ]

\* fill_form(data): True when no fill raised, else False (the except clause).
fill_form(t, j, f) ==
    [ ok     |-> f = 0,
      events |-> << Ev("close_common_popups", TRUE) >> \o select_country(t, j)
                 \o fills(1, f) \o << Ev("fill_form", f = 0) >> ]

\* if not signup_page.fill_form(data): notes = "form_fill_failed"; raise
FillForm ==
    /\ pc = "fill_form"
    /\ \E t \in BOOLEAN, j \in BOOLEAN, f \in 0..Len(Fields), k \in ErrKinds :
         LET res == fill_form(t, j, f)
         IN  /\ trace' = trace \o res.events
             /\ closed_at' = Closed("fill_form", IF f = 0 THEN {} ELSE {k})
             /\ StageCheck(res.ok, "form_fill_failed", "FormFillFailed", "submit_form")
    /\ UNCHANGED << config, phone_numbers, loop_i, account_index, phone_number,
                    context, open_contexts, browser, ret,
                    nav_attempt, nav_log, backoffs, nav_result,
                    csv_exists, csv, csv_base, csv_mark, attempted,
                    io_errors, processes, page >>

\* data.phone as a condition
Truthy(p) == p # None /\ p # ""

\* if not signup_page.submit_form(): notes = "submit_failed"; raise
\* submit_form swallows the error of the click (r) and returns False.
SubmitForm ==
    /\ pc = "submit_form"
    /\ \E r \in Outcomes :
         /\ trace' = Append(trace, Ev("submit_form", r = "ok"))
         /\ closed_at' = Closed("submit_form", {r})
         /\ StageCheck(r = "ok", "submit_failed", "SubmitFailed",
                       IF Truthy(phone_number) THEN "wait_for_page" ELSE "classify")
    /\ UNCHANGED << config, phone_numbers, loop_i, account_index, phone_number,
                    context, open_contexts, browser, ret,
                    nav_attempt, nav_log, backoffs, nav_result,
                    csv_exists, csv, csv_base, csv_mark, attempted,
                    io_errors, processes, page >>

\* --------------------------------------------------- PhoneVerificationPage
\* wait_for_page() with every error of the wait caught.
wait_for_page_catch_all(r) ==
    IF r = "ok" THEN [value |-> "True", exc |-> "none"]
    ELSE [value |-> "False", exc |-> "none"]

\* wait_for_page(): True when the input became visible (r = "ok"), False on
\* the PlaywrightTimeoutError of the wait, the only error caught; any other
\* error leaves the method.
wait_for_page(r) ==
    IF r = "ok" THEN [value |-> "True", exc |-> "none"]
    ELSE IF r = "TimeoutError" THEN [value |-> "False", exc |-> "none"]
    ELSE [value |-> "raise", exc |-> r]

\* if not phone_page.wait_for_page(): notes = "phone_input_not_found"
WaitForPage ==
    /\ pc = "wait_for_page"
    /\ \E r \in Outcomes :
         LET res == wait_for_page(r)
         IN  /\ closed_at' = Closed("phone", {r})
             /\ IF res.value = "True"
                THEN /\ trace' = Append(trace, Ev("wait_for_page", TRUE))
                     /\ pc' = "submit_phone"
                     /\ UNCHANGED << notes, exc >>
                ELSE IF res.value = "False"
                THEN /\ trace' = Append(trace, Ev("wait_for_page", FALSE))
                     /\ notes' = "phone_input_not_found"
                     /\ pc' = "pause"
                     /\ UNCHANGED exc
                ELSE /\ trace' = Append(trace, Ev("wait_for_page_raised", FALSE))
                     /\ exc' = res.exc
                     /\ pc' = "except"
                     /\ UNCHANGED notes
    /\ UNCHANGED << config, phone_numbers, loop_i, account_index, phone_number,
                    context, open_contexts, browser, ret,
                    nav_attempt, nav_log, backoffs, nav_result,
                    csv_exists, csv, csv_base, csv_mark, attempted,
                    io_errors, processes, page >>

\* The calls of submit_phone that can raise: the click on the input, the
\* fill(""), the typing of the number, the click on "Send code".
PhoneSteps == << "phone_click", "phone_clear", "phone_type", "send_code_click" >>

\* The steps of submit_phone, in order; the f-th raises (f = 0: none does,
\* and the fixed time.sleep(10) follows the click).
RECURSIVE phone_steps(_, _)
phone_steps(i, f) ==
    IF i > Len(PhoneSteps) THEN << Ev("sleep_10s", TRUE) >>
    ELSE IF i = f THEN << Ev(PhoneSteps[i], FALSE) >>
    ELSE << Ev(PhoneSteps[i], TRUE) >> \o phone_steps(i + 1, f)

\* submit_phone with the success tag returned from the except clause too.
submit_phone_always_ok(f, k) ==
    [ status |-> "send_code_clicked_waited_10s",
      events |-> phone_steps(1, f) \o << Ev("submit_phone", f = 0) >> ]

\* submit_phone(phone): its status string; k is what the f-th step raised.
submit_phone(f, k) ==
    [ status |-> IF f = 0 THEN "send_code_clicked_waited_10s"
                 ELSE "phone_step_exception:" \o TypeName(k),
      events |-> phone_steps(1, f) \o << Ev("submit_phone", f = 0) >> ]

\* notes = phone_page.submit_phone(data.phone)
SubmitPhone ==
    /\ pc = "submit_phone"
    /\ \E f \in 0..Len(PhoneSteps), k \in ErrKinds :
         LET res == submit_phone(f, k)
         IN  /\ trace' = trace \o res.events
             /\ closed_at' = Closed("phone", IF f = 0 THEN {} ELSE {k})
             /\ notes' = res.status
    /\ pc' = "pause"
    /\ UNCHANGED << config, phone_numbers, loop_i, account_index, phone_number,
                    context, open_contexts, browser, exc, ret,
                    nav_attempt, nav_log, backoffs, nav_result,
                    csv_exists, csv, csv_base, csv_mark, attempted,
                    io_errors, processes, page >>

\* ------------------------------------------- post-submit state, no phone
\* str.lower() on the pieces page.content() can hold.
lower(w) ==
    CASE w = "Welcome" -> "welcome"
      [] w = "Please" -> "please"
      [] w = "Verify" -> "verify"
      [] w = "CHECK YOUR EMAIL" -> "check your email"
      [] w = "Create" -> "create"
      [] OTHER -> w

\* phrase in content.lower()
Contains(content, phrase) == \E i \in DOMAIN content : lower(content[i]) = phrase

\* The if / elif / else with the test of the URL first.
classify_url_first(content, url) ==
    IF url[1] \o url[2] # SIGNUP_URL THEN "navigated_to:" \o url[1]
    ELSE IF Contains(content, "verify") \/ Contains(content, "check your email")
    THEN "verification_prompt_detected_no_phone"
    ELSE "unknown_post_submit_state_no_phone"

\* The if / elif / else over page.content() and page.url (url is the URL
\* split at its "?").
classify(content, url) ==
    IF Contains(content, "verify") \/ Contains(content, "check your email")
    THEN "verification_prompt_detected_no_phone"
    ELSE IF url[1] \o url[2] # SIGNUP_URL THEN "navigated_to:" \o url[1]
    ELSE "unknown_post_submit_state_no_phone"

\* The else branch of "if data.phone": the idle wait (w), every error of
\* which is passed over; then page.content(), which returns or raises (r).
post_submit(w, r, content, url) ==
    IF r = "ok" THEN [notes |-> classify(content, url), exc |-> "none"]
    ELSE [notes |-> "", exc |-> r]

Classify ==
    /\ pc = "classify"
    /\ \E w \in Outcomes, r \in Outcomes, content \in Contents, url \in Urls :
         LET res == post_submit(w, r, content, url)
         IN  /\ trace' = Append(trace, Ev("classify", res.exc = "none"))
             /\ closed_at' = Closed("classify", {w, r})
             /\ IF res.exc = "none"
                THEN /\ notes' = res.notes
                     /\ page' = [content |-> content, url |-> url, idle |-> w = "ok"]
                     /\ pc' = "pause"
                     /\ UNCHANGED exc
                ELSE /\ exc' = res.exc
                     /\ pc' = "except"
                     /\ UNCHANGED << notes, page >>
    /\ UNCHANGED << config, phone_numbers, loop_i, account_index, phone_number,
                    context, open_contexts, browser, ret,
                    nav_attempt, nav_log, backoffs, nav_result,
                    csv_exists, csv, csv_base, csv_mark, attempted,
                    io_errors, processes >>

\* --------------------------------------------- the end of run_single_account
\* Lines 628-636: the pause of KEEP_BROWSER_OPEN_ON_SUCCESS (input() returns,
\* or raises EOFError when stdin is closed) and return False; else return True.
Pause ==
    /\ pc = "pause"
    /\ IF KeepOpen
       THEN \E r \in {"ok", "EOFError"} :
              /\ trace' = Append(trace, Ev("input", r = "ok"))
              /\ IF r = "ok"
                 THEN /\ ret' = "False"
                      /\ pc' = "finally"
                      /\ UNCHANGED exc
                 ELSE /\ exc' = r
                      /\ pc' = "except"
                      /\ UNCHANGED ret
       ELSE /\ ret' = "True"
            /\ pc' = "finally"
            /\ UNCHANGED << exc, trace >>
    /\ UNCHANGED << config, phone_numbers, loop_i, account_index, phone_number, notes,
                    context, open_contexts, browser, closed_at,
                    nav_attempt, nav_log, backoffs, nav_result,
                    csv_exists, csv, csv_base, csv_mark, attempted,
                    io_errors, processes, page >>

\* notes = f"flow_exception:{type(e).__name__}" when notes is still "init"
flow_notes(n, e) == IF n = "init" THEN "flow_exception:" \o TypeName(e) ELSE n

\* The except clause, lines 638-647: for a browser-closed error shutdown()
\* (c: its browser.close()) and launch() (l), whose raise leaves the clause at
\* once.
handler(e, n, b, oc, c, l) ==
    IF IsBrowserClosed(e) THEN
        LET s  == shutdown(b, oc, c)
            la == launch(s.browser, l)
        IN  IF la.exc # "none"
            THEN [browser |-> la.browser, open |-> s.open, notes |-> n, exc |-> la.exc,
                  events |-> << Ev("shutdown", TRUE), Ev("launch", FALSE) >>,
                  relaunched |-> FALSE, started |-> la.started, closed |-> s.closed]
            ELSE [browser |-> la.browser, open |-> s.open, notes |-> flow_notes(n, e),
                  exc |-> "none",
                  events |-> << Ev("shutdown", TRUE), Ev("launch", TRUE) >>,
                  relaunched |-> TRUE, started |-> la.started, closed |-> s.closed]
    ELSE [browser |-> b, open |-> oc, notes |-> flow_notes(n, e), exc |-> "none",
          events |-> << >>, relaunched |-> FALSE, started |-> 0, closed |-> 0]

Except ==
    /\ pc = "except"
    /\ \E c \in Outcomes, l \in Outcomes :
         LET h == handler(exc, notes, browser, open_contexts, c, l)
         IN  /\ browser' = h.browser
             /\ processes' = processes + h.started - h.closed
             /\ open_contexts' = h.open
             /\ notes' = h.notes
             /\ exc' = h.exc
             /\ trace' = trace \o h.events
             /\ ret' = IF h.exc = "none" THEN "True" ELSE "raise"
             /\ closed_at' = IF h.relaunched THEN "none" ELSE closed_at
    /\ pc' = "finally"
    /\ UNCHANGED << config, phone_numbers, loop_i, account_index, phone_number,
                    context, nav_attempt, nav_log, backoffs, nav_result,
                    csv_exists, csv, csv_base, csv_mark, attempted,
                    io_errors, page >>

\* The condition of the close with "and not HEADLESS" left out.
ShouldCloseIgnoringHeadless == context # 0 /\ ~config.KEEP_BROWSER_OPEN_ON_SUCCESS

\* if context and not (KEEP_BROWSER_OPEN_ON_SUCCESS and not HEADLESS)
ShouldClose == context # 0 /\ ~KeepOpen

\* The finally clause with a write_row that lets its error out: the close
\* is not reached and the error leaves run_single_account.
FinallyWriteRaises ==
    /\ pc = "finally"
    /\ \E io \in BOOLEAN :
         /\ csv' = write_row(csv, [phone_used |-> PhoneUsed(phone_number), notes |-> notes], io)
         /\ io_errors' = IF io THEN io_errors ELSE io_errors + 1
         /\ IF io
            THEN /\ UNCHANGED << ret, exc >>
                 /\ IF ShouldClose
                    THEN /\ open_contexts' = close_context(open_contexts, context)
                         /\ trace' = trace \o << Ev("write_row", io), Ev("close_context", TRUE) >>
                    ELSE /\ trace' = Append(trace, Ev("write_row", io))
                         /\ UNCHANGED open_contexts
            ELSE /\ ret' = "raise"
                 /\ exc' = "Error"
                 /\ trace' = Append(trace, Ev("write_row", io))
                 /\ UNCHANGED open_contexts
    /\ pc' = "return"
    /\ UNCHANGED << config, phone_numbers, loop_i, account_index, phone_number, notes,
                    context, browser, closed_at,
                    nav_attempt, nav_log, backoffs, nav_result,
                    csv_exists, csv_base, csv_mark, attempted, processes, page >>

\* The finally clause, lines 649-659: write_row (io: whether the append
\* worked), then close_context.
Finally ==
    /\ pc = "finally"
    /\ \E io \in BOOLEAN :
         /\ csv' = write_row(csv, [phone_used |-> PhoneUsed(phone_number), notes |-> notes], io)
         /\ io_errors' = IF io THEN io_errors ELSE io_errors + 1
         /\ IF ShouldClose
            THEN /\ open_contexts' = close_context(open_contexts, context)
                 /\ trace' = trace \o << Ev("write_row", io), Ev("close_context", TRUE) >>
            ELSE /\ trace' = Append(trace, Ev("write_row", io))
                 /\ UNCHANGED open_contexts
    /\ pc' = "return"
    /\ UNCHANGED << config, phone_numbers, loop_i, account_index, phone_number, notes,
                    context, browser, exc, ret, closed_at,
                    nav_attempt, nav_log, backoffs, nav_result,
                    csv_exists, csv_base, csv_mark, attempted, processes, page >>

\* The loop with its break inverted: "if continue_loop: break".
after_attempt_inverted(r, queue) ==
    IF r = "raise" THEN "exit_error"
    ELSE IF queue = << >> THEN "done"
    ELSE IF r = "True" THEN "done"
    ELSE "run"

\* Back in run: an exception that left run_single_account leaves run and ends
\* main with sys.exit(1); the call of the empty list has no loop; False is the
\* break; else the jitter_sleep and the next iteration.
after_attempt(r, queue) ==
    IF r = "raise" THEN "exit_error"
    ELSE IF queue = << >> THEN "done"
    ELSE IF r = "False" THEN "done"
    ELSE "run"

\* The locals of run_single_account (data, notes, context) end with the
\* call, and the log of the attempt with them; what it returned, or the
\* exception that left it, is with run.
AfterAttempt ==
    /\ pc = "return"
    /\ pc' = after_attempt(ret, phone_numbers)
    /\ phone_number' = None
    /\ notes' = "init"
    /\ context' = 0
    /\ trace' = << >>
    /\ closed_at' = "none"
    /\ page' = NoPage
    /\ UNCHANGED << config, phone_numbers, loop_i, account_index,
                    open_contexts, browser, exc, ret,
                    nav_attempt, nav_log, backoffs, nav_result,
                    csv_exists, csv, csv_base, csv_mark, attempted,
                    io_errors, processes >>

Next ==
    \/ InitOutput
    \/ MainLaunch
    \/ RunNext
    \/ NewContext
    \/ NewPage
    \/ GotoAttempt
    \/ NavigateCheck
    \/ FillForm
    \/ SubmitForm
    \/ WaitForPage
    \/ SubmitPhone
    \/ Classify
    \/ Pause
    \/ Except
    \/ Finally
    \/ AfterAttempt

Spec == Init /\ [][Next]_vars

\* The same program, its retry loop explored for every MAX_NAV_RETRIES up to
\* MaxNavRetries, with the default HEADLESS and KEEP_BROWSER_OPEN_ON_SUCCESS
\* and a queue of at most one number.
NavInit ==
    /\ InitWith(1..MaxNavRetries, Queues(1))
    /\ ~config.HEADLESS
    /\ ~config.KEEP_BROWSER_OPEN_ON_SUCCESS
    /\ ~csv_exists

NavSpec == NavInit /\ [][Next]_vars

\* ------------------------------------------- BrowserManager on its own
\* A client of one BrowserManager that calls launch, shutdown, new_context
\* and close_context in any order, and goes on after a call that raised.
\* trace is the log of the calls (a shutdown that called browser.close() logs
\* that call before itself), exc what the last call raised, context what the
\* last new_context returned.
BmLaunch ==
    /\ pc = "browser_manager" /\ Len(trace) < MaxLog
    /\ \E r \in Outcomes :
         LET la == launch(browser, r)
         IN  /\ browser' = la.browser
             /\ processes' = processes + la.started
             /\ exc' = la.exc
             /\ trace' = Append(trace, Ev("launch", la.exc = "none"))
    /\ UNCHANGED << config, phone_numbers, pc, loop_i, account_index, phone_number, notes,
                    context, open_contexts, ret, closed_at,
                    nav_attempt, nav_log, backoffs, nav_result,
                    csv_exists, csv, csv_base, csv_mark, attempted,
                    io_errors, page >>

BmShutdown ==
    /\ pc = "browser_manager" /\ Len(trace) < MaxLog
    /\ \E r \in Outcomes :
         LET s == shutdown(browser, open_contexts, r)
         IN  /\ browser' = s.browser
             /\ open_contexts' = s.open
             /\ processes' = processes - s.closed
             /\ exc' = s.exc
             /\ trace' = trace \o (IF s.closed = 1 THEN << Ev("browser.close", r = "ok") >>
                                                    ELSE << >>)
                               \o << Ev("shutdown", s.exc = "none") >>
    /\ UNCHANGED << config, phone_numbers, pc, loop_i, account_index, phone_number, notes,
                    context, ret, closed_at,
                    nav_attempt, nav_log, backoffs, nav_result,
                    csv_exists, csv, csv_base, csv_mark, attempted,
                    io_errors, page >>

BmNewContext ==
    /\ pc = "browser_manager" /\ Len(trace) < MaxLog
    /\ \E r1 \in Outcomes, c \in Outcomes, l \in Outcomes, r2 \in Outcomes :
         LET res == new_context(browser, open_contexts, Len(trace) + 1, r1, c, l, r2)
         IN  /\ browser' = res.browser
             /\ open_contexts' = res.open
             /\ processes' = processes + res.started - res.closed
             /\ context' = res.context
             /\ exc' = res.exc
             /\ trace' = trace \o res.events
    /\ UNCHANGED << config, phone_numbers, pc, loop_i, account_index, phone_number, notes,
                    ret, closed_at,
                    nav_attempt, nav_log, backoffs, nav_result,
                    csv_exists, csv, csv_base, csv_mark, attempted,
                    io_errors, page >>

BmCloseContext ==
    /\ pc = "browser_manager" /\ Len(trace) < MaxLog
    /\ \E c \in (open_contexts \cup {context}) \ {0} :
         /\ open_contexts' = close_context(open_contexts, c)
         /\ trace' = Append(trace, Ev("close_context", TRUE))
    /\ exc' = "none"
    /\ UNCHANGED << config, phone_numbers, pc, loop_i, account_index, phone_number, notes,
                    context, browser, ret, closed_at,
                    nav_attempt, nav_log, backoffs, nav_result,
                    csv_exists, csv, csv_base, csv_mark, attempted,
                    io_errors, processes, page >>

BmNext ==
    \/ BmLaunch
    \/ BmShutdown
    \/ BmNewContext
    \/ BmCloseContext

BmInit ==
    /\ Constructed({DefaultMaxNavRetries}, {<< >>})
    /\ ~config.HEADLESS
    /\ ~config.KEEP_BROWSER_OPEN_ON_SUCCESS
    /\ ~csv_exists
    /\ pc = "browser_manager"

BrowserSpec == BmInit /\ [][BmNext]_vars

\* ================================================================ claims
\* The attempt has run its finally clause and is about to leave
\* run_single_account (by a return or by an exception).
AttemptEnded == pc = "return"

\* The try body or the except clause of an attempt is running.
InAttempt == pc \in { "new_context", "new_page", "navigate", "nav_return", "fill_form",
                      "submit_form", "wait_for_page", "submit_phone", "classify",
                      "pause", "except", "finally" }

\* run was entered and has ended, by its return or by an exception.
RunEnded == pc = "done" \/ (pc = "exit_error" /\ account_index > 0)

RowsOfAttempt == Len(csv) - csv_mark
RowsOfRun == Len(csv) - csv_base

\* C1 (as stated): at the end of every attempt exactly one row has been
\* appended to the output file for it, whatever stage failed.
C1_ExactlyOneRow == AttemptEnded => RowsOfAttempt = 1

\* C1 (amended): every attempt calls write_row exactly once, in its finally
\* clause and not before; the file gains exactly one row for the attempt,
\* unless the append itself failed (the error is logged and swallowed by
\* write_row), and then it gains none; it never gains two.
C1_OneWritePerAttempt ==
    /\ InAttempt => Count("write_row") = 0 /\ RowsOfAttempt = 0
    /\ AttemptEnded =>
         /\ Count("write_row") = 1
         /\ RowsOfAttempt = IF HasOk("write_row", TRUE) THEN 1 ELSE 0

\* An attempt left by an exception (the relaunch of the except clause
\* failed) whose row is in the file.
C1_Witness == AttemptEnded /\ ret = "raise" /\ RowsOfAttempt = 1

AllowedNotes ==
    { "nav_failed", "form_fill_failed", "submit_failed",
      "verification_prompt_detected_no_phone", "unknown_post_submit_state_no_phone",
      "phone_input_not_found", "send_code_clicked_waited_10s" }
    \cup { "navigated_to:" \o u[1] : u \in Urls }
    \cup { "phone_step_exception:" \o k : k \in ErrKinds }
    \cup { "flow_exception:" \o k : k \in ErrKinds \cup {"Exception", "EOFError"} }

\* C2: the notes of the row an attempt writes is one of the tags of
\* AllowedNotes, never empty and never "init", on every path.
C2_NotesIsATag ==
    (AttemptEnded /\ HasOk("write_row", TRUE)) => csv[Len(csv)].notes \in AllowedNotes

\* C3: when the keep-open override is not active, the context an attempt
\* created is closed when the attempt ends, on every exit path.
C3_ContextClosed == (AttemptEnded /\ ~KeepOpen) => account_index \notin open_contexts

\* An attempt that created its context failed in navigation, and the
\* override is not active.
C3_Witness ==
    /\ AttemptEnded /\ ~KeepOpen /\ context # 0
    /\ notes = "nav_failed"
    /\ HasOk("close_context", TRUE)

PostSubmitOps == { "wait_for_page", "wait_for_page_raised", "submit_phone", "classify" }

\* C4: the stages of an attempt run in the order navigate, fill form, submit,
\* post-submit classification, each at most once and only after the one
\* before it succeeded; a failed stage leaves its tag in the recorded notes
\* and no later stage runs.
C4_StagesInOrder ==
    /\ \A op \in { "navigate", "fill_form", "submit_form" } \cup PostSubmitOps : Count(op) <= 1
    /\ Before("navigate", TRUE, "fill_form")
    /\ Before("fill_form", TRUE, "submit_form")
    /\ \A op \in PostSubmitOps : Before("submit_form", TRUE, op)
    /\ AttemptEnded =>
         /\ HasOk("navigate", FALSE) =>
              /\ notes = "nav_failed"
              /\ ~Has("fill_form") /\ ~Has("submit_form")
              /\ \A op \in PostSubmitOps : ~Has(op)
         /\ HasOk("fill_form", FALSE) =>
              /\ notes = "form_fill_failed"
              /\ ~Has("submit_form")
              /\ \A op \in PostSubmitOps : ~Has(op)
         /\ HasOk("submit_form", FALSE) =>
              /\ notes = "submit_failed"
              /\ \A op \in PostSubmitOps : ~Has(op)
         /\ HasOk("write_row", TRUE) => csv[Len(csv)].notes = notes

\* An attempt whose navigation and form fill succeeded and whose submit failed.
C4_Witness ==
    /\ AttemptEnded
    /\ HasOk("navigate", TRUE) /\ HasOk("fill_form", TRUE) /\ HasOk("submit_form", FALSE)
    /\ HasOk("write_row", TRUE)

\* C5: when a batch run has ended, the number of rows written during it
\* equals the number of attempts run, which is the queue length for a
\* non-empty queue and 1 for an empty one.
C5_RowsEqualAttempts ==
    RunEnded =>
        /\ RowsOfRun = account_index
        /\ account_index = IF phone_numbers = << >> THEN 1 ELSE Len(phone_numbers)

\* C5 (amended): the rows written during a run are as many as the attempts
\* run less those whose append failed; the attempts run are exactly 1 for an
\* empty queue and at most the queue length otherwise, and as many as the
\* queue is long when run returns without an attempt having given the stop
\* signal. (A run ended by the stop signal, or by an exception leaving an
\* attempt, has run fewer.)
C5_RowsMatchAttempts ==
    /\ pc # "main" => RowsOfRun <= account_index
    /\ RunEnded =>
         /\ RowsOfRun = account_index - io_errors
         /\ account_index >= 1
         /\ account_index <= IF phone_numbers = << >> THEN 1 ELSE Len(phone_numbers)
         /\ (pc = "done" /\ ret # "False") =>
                account_index = IF phone_numbers = << >> THEN 1 ELSE Len(phone_numbers)

\* A run over two numbers returned after two attempts, the first failed in
\* navigation, and both rows are in the file.
C5_Witness ==
    /\ pc = "done" /\ Len(phone_numbers) = 2 /\ account_index = 2
    /\ RowsOfRun = 2
    /\ csv[csv_base + 1].notes = "nav_failed"

\* C6: the batch loop attempts the numbers of the queue in queue order, one
\* attempt per number, and ends before the queue is exhausted only when an
\* attempt returned the stop signal (False).
C6_EveryNumberAttempted ==
    phone_numbers # << >> =>
        /\ Len(attempted) <= Len(phone_numbers)
        /\ attempted = SubSeq(phone_numbers, 1, Len(attempted))
        /\ (RunEnded /\ ret # "False") => attempted = phone_numbers

\* C7: when a browser-closed error was raised during an attempt, the browser
\* has been shut down and launched again by the end of that attempt, and the
\* attempt's row was written. Stated for the attempts in which no launch()
\* failed, so that only the script decides it.
C7_ClosedThenRelaunched ==
    (AttemptEnded /\ ~HasOk("launch", FALSE)) =>
        /\ closed_at = "none"
        /\ Count("write_row") = 1

\* --------------------------------------------------- claims on robust_goto
AllTimedOut == \A i \in DOMAIN nav_log : nav_log[i].goto = "timeout"
NoneLoaded == \A i \in DOMAIN nav_log : nav_log[i].result # "ok"
Returned == pc = "nav_return"

\* C8: when every page load times out, robust_goto returns False after
\* exactly MAX_NAV_RETRIES loads, and the backoff after load k is
\* min(2 * k, 8): non-decreasing and never above 8.
C8_TimeoutBackoff ==
    AllTimedOut =>
        /\ Len(backoffs) = Len(nav_log)
        /\ \A k \in DOMAIN backoffs : backoffs[k] = IF 2 * k <= 8 THEN 2 * k ELSE 8
        /\ \A k \in DOMAIN backoffs : backoffs[k] <= 8
        /\ \A k \in DOMAIN backoffs : k > 1 => backoffs[k - 1] <= backoffs[k]
        /\ Len(nav_log) <= config.MAX_NAV_RETRIES
        /\ Returned => nav_result = "False" /\ Len(nav_log) = config.MAX_NAV_RETRIES

\* robust_goto returned False after five or more timed-out loads: the cap of
\* the backoff was applied.
C8_Witness ==
    /\ Returned /\ nav_result = "False" /\ AllTimedOut
    /\ Len(nav_log) >= 5
    /\ backoffs[5] = 8

\* C9: for any mix of timeouts and other errors, robust_goto raises nothing,
\* makes at most MAX_NAV_RETRIES loads, returns True at the first load
\* attempt that succeeds, with no load after it, and returns False exactly
\* when all MAX_NAV_RETRIES load attempts failed.
C9_BoundedRetries ==
    /\ Len(nav_log) <= config.MAX_NAV_RETRIES
    /\ pc \in { "navigate", "nav_return" } => exc = "none"
    /\ pc = "navigate" => NoneLoaded /\ Len(nav_log) < config.MAX_NAV_RETRIES
    /\ Returned =>
         /\ nav_result \in { "True", "False" }
         /\ \A i \in 1..(Len(nav_log) - 1) : nav_log[i].result # "ok"
         /\ nav_result = "True" <=> nav_log[Len(nav_log)].result = "ok"
         /\ nav_result = "False" <=> (NoneLoaded /\ Len(nav_log) = config.MAX_NAV_RETRIES)

\* robust_goto returned True at its third load, after a timeout and another
\* error.
C9_Witness ==
    /\ Returned /\ nav_result = "True"
    /\ Len(nav_log) = 3
    /\ nav_log[1].result = "timeout"
    /\ nav_log[2].result = "error"

\* C10 (as stated): a load attempt whose goto reached "load" is the last
\* one and robust_goto returns True in it, whatever the idle wait and the
\* cleanup did after it.
C10_LoadSuffices ==
    \A i \in DOMAIN nav_log :
        nav_log[i].goto = "ok" =>
            /\ i = Len(nav_log)
            /\ Returned /\ nav_result = "True"

\* C10 (amended): a load attempt whose goto reached "load" is the last one
\* and robust_goto returns True in it, with no backoff, when the idle wait
\* returned or timed out, whatever the cleanup did; only an error of the idle
\* wait other than its timeout fails the attempt.
C10_LoadSufficesUnlessIdleError ==
    \A i \in DOMAIN nav_log :
        /\ (nav_log[i].goto = "ok" /\ nav_log[i].idle # "error") =>
              /\ i = Len(nav_log)
              /\ Returned /\ nav_result = "True"
              /\ Len(backoffs) = i - 1
        /\ (nav_log[i].goto = "ok" /\ nav_log[i].idle = "error") =>
              /\ nav_log[i].result = "error"
              /\ Len(backoffs) >= i /\ backoffs[i] = 1

\* robust_goto returned True in a load attempt whose idle wait timed out and
\* whose cleanup failed.
C10_Witness ==
    /\ Returned /\ nav_result = "True"
    /\ nav_log[Len(nav_log)].idle = "timeout"
    /\ nav_log[Len(nav_log)].cleanup = "error"

\* ------------------------------------------------- claims on the form fill
AllFilled == \A i \in DOMAIN Fields : HasOk("fill_" \o Fields[i], TRUE)

\* C11: when both country-selection strategies failed, fill_form still goes
\* on to the fills of the five fields; when those succeed it returns True and
\* the submit click is attempted: the country failure alone never gives
\* form_fill_failed.
C11_CountryFailureNonFatal ==
    HasOk("select_country", FALSE) =>
        /\ HasOk("select_country_by_typing", FALSE)
        /\ HasOk("select_country_by_js", FALSE)
        /\ \E i \in DOMAIN trace :
              /\ trace[i] = Ev("select_country", FALSE)
              /\ i < Len(trace)
              /\ trace[i + 1].op = "fill_first_name"
        /\ AllFilled =>
              /\ HasOk("fill_form", TRUE)
              /\ notes # "form_fill_failed"
              /\ pc = "submit_form" \/ Has("submit_form")

\* An attempt in which both strategies failed, the five fills succeeded and
\* the submit click was made.
C11_Witness ==
    /\ AttemptEnded
    /\ HasOk("select_country", FALSE)
    /\ AllFilled /\ HasOk("fill_form", TRUE)
    /\ HasOk("submit_form", TRUE)

\* ----------------------------------------------- claims on the empty queue
\* C12: with an empty queue run makes exactly one attempt, with no phone
\* number; the row of that attempt has phone_used = "" and the phone
\* sub-flow is never entered.
C12_EmptyQueue ==
    phone_numbers = << >> =>
        /\ account_index <= 1
        /\ Len(attempted) = account_index
        /\ \A i \in DOMAIN attempted : attempted[i] = None
        /\ RunEnded => account_index = 1
        /\ pc \notin { "wait_for_page", "submit_phone" }
        /\ ~Has("wait_for_page") /\ ~Has("wait_for_page_raised") /\ ~Has("submit_phone")
        /\ pc # "main" =>
              /\ RowsOfRun <= 1
              /\ \A i \in (csv_base + 1)..Len(csv) : csv[i].phone_used = ""

\* The run of an empty queue has returned after its one attempt, which
\* reached the post-submit classification, and the row is in the file.
C12_Witness ==
    /\ phone_numbers = << >> /\ pc = "done"
    /\ account_index = 1 /\ attempted = << None >> /\ RowsOfRun = 1
    /\ csv[Len(csv)].phone_used = ""
    /\ csv[Len(csv)].notes = "unknown_post_submit_state_no_phone"

\* --------------------------------------------- claims on the BrowserManager
\* new_context has just returned or raised in run_single_account: the log of
\* the attempt holds the calls of that one call and nothing else.
AfterNewContext == pc = "new_page" \/ (pc = "except" /\ ~Has("new_page"))

\* C13: one call of new_context whose first creation failed shuts the
\* browser down and launches it once and creates once more; when the launch
\* or the second creation fails the error goes to the caller: at most two
\* creations and one relaunch in a call.
C13_OneRelaunchOneRetry ==
    AfterNewContext =>
        /\ Count("new_context") \in 1..2
        /\ Count("shutdown") <= 1 /\ Count("launch") <= 1
        /\ trace[1].op = "new_context"
        /\ IF trace[1].ok
           THEN Len(trace) = 1 /\ exc = "none" /\ context # 0
           ELSE IF exc = "BrowserNotLaunched"
           THEN Len(trace) = 1 /\ context = 0
           ELSE /\ Len(trace) >= 3
                /\ trace[2] = Ev("shutdown", TRUE)
                /\ trace[3].op = "launch"
                /\ IF trace[3].ok
                   THEN /\ Len(trace) = 4
                        /\ trace[4].op = "new_context"
                        /\ trace[4].ok => pc = "new_page" /\ exc = "none" /\ context # 0
                        /\ ~trace[4].ok => pc = "except" /\ exc \in ErrKinds /\ context = 0
                   ELSE Len(trace) = 3 /\ pc = "except" /\ exc \in ErrKinds /\ context = 0

\* A call whose two creations failed, with the relaunch between them: the
\* second error is with the caller.
C13_Witness ==
    /\ pc = "except" /\ ~Has("new_page")
    /\ trace = << Ev("new_context", FALSE), Ev("shutdown", TRUE),
                  Ev("launch", TRUE), Ev("new_context", FALSE) >>
    /\ exc \in ErrKinds
    /\ browser # 0

\* The client has just called launch (the only call that logs one launch
\* entry and nothing else).
LaunchCalled == \E ok \in BOOLEAN : trace' = Append(trace, Ev("launch", ok))

\* C14: launch is idempotent: called with a browser held it starts no
\* browser process, raises nothing and leaves the held browser as it is;
\* after any sequence of launch, shutdown, new_context and close_context
\* calls the session holds at most one browser process, and holds one
\* exactly when self.browser is set.
C14_LaunchIdempotent ==
    /\ [](processes \in {0, 1} /\ (browser # 0 <=> processes = 1))
    /\ [][ (LaunchCalled /\ browser # 0) =>
              /\ browser' = browser
              /\ processes' = processes
              /\ open_contexts' = open_contexts
              /\ exc' = "none" ]_vars

\* launch was called twice in a row with success, and one process is held.
C14_Witness ==
    /\ pc = "browser_manager"
    /\ \E i \in 1..(Len(trace) - 1) :
          trace[i] = Ev("launch", TRUE) /\ trace[i + 1] = Ev("launch", TRUE)
    /\ browser # 0 /\ processes = 1

\* The client has just called shutdown (new_context logs its own shutdown
\* before a launch entry, never last).
ShutdownCalled == trace' # trace /\ trace'[Len(trace')].op = "shutdown"

\* C15: shutdown never raises and leaves no browser held, also when
\* browser.close() raised; with no browser held (a second shutdown, or none
\* launched) it calls no close and changes nothing.
C15_ShutdownIdempotent ==
    [][ ShutdownCalled =>
          /\ browser' = 0
          /\ exc' = "none"
          /\ trace'[Len(trace')] = Ev("shutdown", TRUE)
          /\ browser # 0 =>
                /\ Len(trace') = Len(trace) + 2
                /\ trace'[Len(trace) + 1].op = "browser.close"
                /\ processes' = processes - 1
          /\ browser = 0 =>
                /\ trace' = Append(trace, Ev("shutdown", TRUE))
                /\ processes' = processes
                /\ open_contexts' = open_contexts ]_vars

\* A shutdown whose browser.close() raised, and a second shutdown after it
\* that called no close: no browser is held and nothing was raised.
C15_Witness ==
    /\ pc = "browser_manager"
    /\ \E i \in 1..(Len(trace) - 2) :
          /\ trace[i] = Ev("browser.close", FALSE)
          /\ trace[i + 1] = Ev("shutdown", TRUE)
          /\ trace[i + 2] = Ev("shutdown", TRUE)
    /\ browser = 0 /\ processes = 0 /\ exc = "none"

\* ------------------------------------------------ claims on the output file
IsPrefix(a, b) == Len(a) <= Len(b) /\ SubSeq(b, 1, Len(a)) = a
Headers == Cardinality({ i \in DOMAIN csv : csv[i] = CSV_FIELDS })

\* C16: the header is written once, when the file is created: on an
\* existing file _initialize_file changes nothing, and every write_row
\* appends at most one row after the content there is, so the header and
\* the earlier rows (those of earlier runs too) are never rewritten or
\* duplicated.
C16_HeaderOnce ==
    /\ [](IF csv_exists THEN csv[1] = CSV_FIELDS /\ Headers = 1 ELSE csv = << >>)
    /\ [][ /\ csv_exists => csv_exists' /\ IsPrefix(csv, csv') /\ Len(csv') <= Len(csv) + 1
           /\ (~csv_exists /\ csv_exists') => csv' = << CSV_FIELDS >>
           /\ (pc = "main" /\ csv_exists) => csv' = csv
           /\ csv' # csv => (pc = "finally" \/ (pc = "main" /\ ~csv_exists)) ]_vars

\* A run on the file an earlier run left has returned after two attempts:
\* the old header and row are in place, with two rows after them.
C16_Witness ==
    /\ pc = "done" /\ csv_base = 2
    /\ Len(csv) = 4
    /\ csv[1] = CSV_FIELDS /\ csv[2] = OldRow
    /\ csv[3] # CSV_FIELDS /\ csv[4] # CSV_FIELDS

\* ------------------------------------------------------ claims on the pause
\* The try body of the attempt got past the post-submit step.
ReachedEnd ==
    /\ HasOk("submit_form", TRUE)
    /\ HasOk("classify", TRUE) \/ Has("submit_phone") \/ HasOk("wait_for_page", FALSE)

\* C17: with KEEP_BROWSER_OPEN_ON_SUCCESS and not HEADLESS, input() is
\* called only in an attempt that got past the post-submit step, and once it
\* returned the attempt returns False and run starts no further attempt; an
\* attempt that did not pause (it failed in navigation, form fill or submit,
\* or by an exception) never returns False, and the loop never ends before
\* the last number after it. With the override off no attempt calls input().
C17_PauseOnlyAfterSuccess ==
    /\ Has("input") => KeepOpen /\ ReachedEnd /\ Count("input") = 1
    /\ ~KeepOpen => ~Has("input")
    /\ (KeepOpen /\ AttemptEnded /\ ReachedEnd) => Has("input")
    /\ HasOk("input", TRUE) =>
          /\ pc \in { "finally", "return" }
          /\ ret = "False"
    /\ (AttemptEnded /\ ~Has("input")) => ret # "False"
    /\ ret = "False" => pc \in { "finally", "return", "done" }
    /\ (RunEnded /\ phone_numbers # << >> /\ ret # "False") =>
          attempted = phone_numbers

\* ---------------------------------------------------- claims on the contexts
\* C18: at every point of a run at most one browser context is open, in
\* every configuration, the keep-open mode with failing attempts included.
C18_OneContextOpen == Cardinality(open_contexts) <= 1

\* ------------------------------------------------ claims on the phone sub-flow
PhoneAttempt == AttemptEnded /\ Truthy(phone_number) /\ HasOk("submit_form", TRUE)

PhoneSuccess == "send_code_clicked_waited_10s"
PhoneStepTags == { "phone_step_exception:" \o k : k \in ErrKinds }

NoPhoneStep ==
    /\ ~Has("submit_phone") /\ ~Has("sleep_10s")
    /\ \A i \in DOMAIN PhoneSteps : ~Has(PhoneSteps[i])

\* The input was clicked and cleared, the number typed, "Send code" clicked
\* and the 10 seconds slept, in that order, and submit_phone returned after.
StepsInOrder ==
    \E i \in DOMAIN trace :
        /\ i + 5 <= Len(trace)
        /\ SubSeq(trace, i, i + 5) =
              << Ev("phone_click", TRUE), Ev("phone_clear", TRUE), Ev("phone_type", TRUE),
                 Ev("send_code_click", TRUE), Ev("sleep_10s", TRUE),
                 Ev("submit_phone", TRUE) >>

\* The row of the attempt, when its append worked, holds the attempt's notes.
RowHoldsNotes == HasOk("write_row", TRUE) => csv[Len(csv)].notes = notes

\* What a wait that returned leaves in notes.
AfterWaitReturned ==
    /\ HasOk("wait_for_page", FALSE) => notes = "phone_input_not_found" /\ NoPhoneStep
    /\ HasOk("wait_for_page", TRUE) =>
          /\ Has("submit_phone")
          /\ notes = PhoneSuccess <=> StepsInOrder
          /\ ~StepsInOrder =>
                /\ notes \in PhoneStepTags
                /\ ~Has("sleep_10s")
                /\ \E i \in DOMAIN trace :
                      /\ trace[i].op \in { PhoneSteps[j] : j \in DOMAIN PhoneSteps }
                      /\ ~trace[i].ok
                      /\ trace[i + 1] = Ev("submit_phone", FALSE)

\* C19 (as stated): for an attempt with a phone number whose submit
\* succeeded the recorded notes is the status of the phone sub-flow:
\* phone_input_not_found when the input did not become visible (and no phone
\* step ran); else the success tag exactly when the number was typed, "Send
\* code" clicked and the 10 seconds slept, in order, and a
\* phone_step_exception tag when a step raised.
C19_NotesIsPhoneStatus ==
    PhoneAttempt =>
        /\ HasOk("wait_for_page", TRUE) \/ HasOk("wait_for_page", FALSE)
        /\ notes \in { "phone_input_not_found", PhoneSuccess } \cup PhoneStepTags
        /\ AfterWaitReturned
        /\ RowHoldsNotes

\* C19 (amended): the same, for the attempts whose wait for the input
\* returned (visible, or timed out); when the wait raises an error other than
\* its timeout no phone step runs and the error goes to the except clause,
\* which leaves notes with no status of the phone sub-flow.
C19_NotesIsPhoneStatusUnlessRaised ==
    PhoneAttempt =>
        /\ Count("wait_for_page") + Count("wait_for_page_raised") = 1
        /\ ~Has("wait_for_page_raised") =>
              notes \in { "phone_input_not_found", PhoneSuccess } \cup PhoneStepTags
        /\ AfterWaitReturned
        /\ Has("wait_for_page_raised") =>
              /\ NoPhoneStep
              /\ notes \in { "flow_exception:" \o k : k \in ErrKinds } \cup { "init" }
        /\ RowHoldsNotes

\* The second attempt of a run ended with a "Send code" click that raised,
\* after a first attempt that ended with the success tag.
C19_Witness ==
    /\ PhoneAttempt /\ account_index = 2 /\ RowsOfRun = 2
    /\ csv[csv_base + 1].notes = PhoneSuccess
    /\ HasOk("wait_for_page", TRUE) /\ HasOk("phone_type", TRUE)
    /\ HasOk("send_code_click", FALSE)
    /\ csv[Len(csv)].notes = "phone_step_exception:TimeoutError"

\* ---------------------------------------- claims on the classification
\* The page's text holds "verify" or "check your email" in any case.
Prompted ==
    \E i \in DOMAIN page.content :
        page.content[i] \in { "verify", "Verify", "VERIFY",
                              "check your email", "Check your email", "CHECK YOUR EMAIL" }

\* C20: for an attempt without a phone number whose submit succeeded and
\* whose page could be read, notes is verification_prompt_detected_no_phone
\* when the text holds a prompt, also when the URL changed; else
\* navigated_to:<url without query> when the URL is not the signup URL; else
\* unknown_post_submit_state_no_phone; whatever the idle wait before did.
C20_ClassificationPriority ==
    /\ (HasOk("submit_form", TRUE) /\ ~Truthy(phone_number)) =>
          pc = "classify" \/ Has("classify")
    /\ Has("classify") => HasOk("submit_form", TRUE) /\ ~Truthy(phone_number)
    /\ HasOk("classify", TRUE) =>
          /\ page # NoPage
          /\ notes = IF Prompted THEN "verification_prompt_detected_no_phone"
                     ELSE IF page.url[1] \o page.url[2] # SIGNUP_URL
                     THEN "navigated_to:" \o page.url[1]
                     ELSE "unknown_post_submit_state_no_phone"
          /\ AttemptEnded => RowHoldsNotes

\* An attempt whose idle wait failed and whose page holds a prompt in upper
\* case at a URL that is not the signup URL: the prompt decided.
C20_Witness ==
    /\ AttemptEnded /\ HasOk("classify", TRUE) /\ HasOk("write_row", TRUE)
    /\ ~page.idle
    /\ page.content = << "CHECK YOUR EMAIL" >>
    /\ page.url[1] # SIGNUP_URL
    /\ csv[Len(csv)].notes = "verification_prompt_detected_no_phone"

\* ------------------------------------------- claims on the order of the fills
IsFill(e) == \E i \in DOMAIN Fields : e.op = "fill_" \o Fields[i]

\* The fills of the attempt, in the order they were made.
FillEvents == SelectSeq(trace, IsFill)

\* C21: the fields are filled in the order first name, last name, email,
\* password, confirmation; after a fill that raised no later field is
\* filled, fill_form returns False (the exception the attempt then raises
\* is its own FormFillFailed, notes form_fill_failed) and the submit click is
\* not made; fill_form returns True exactly when the five fills were made.
C21_FillAllOrNothing ==
    /\ Len(FillEvents) <= Len(Fields)
    /\ \A i \in DOMAIN FillEvents :
          /\ FillEvents[i].op = "fill_" \o Fields[i]
          /\ ~FillEvents[i].ok => i = Len(FillEvents)
    /\ FillEvents # << >> => Count("fill_form") = 1
    /\ HasOk("fill_form", TRUE) <=>
          (Len(FillEvents) = Len(Fields) /\ FillEvents[Len(Fields)].ok)
    /\ HasOk("fill_form", FALSE) =>
          /\ FillEvents # << >> /\ ~FillEvents[Len(FillEvents)].ok
          /\ \E i \in DOMAIN trace :
                /\ IsFill(trace[i]) /\ ~trace[i].ok
                /\ i < Len(trace) /\ trace[i + 1] = Ev("fill_form", FALSE)
          /\ ~Has("submit_form") /\ pc \in { "except", "finally", "return" }
          /\ notes = "form_fill_failed"
          /\ pc = "except" => exc = "FormFillFailed"
          /\ AttemptEnded => ret = "True" /\ RowHoldsNotes

\* An attempt whose email fill raised after the two name fills: nothing
\* more was filled, no submit click, the row says form_fill_failed.
C21_Witness ==
    /\ AttemptEnded
    /\ FillEvents = << Ev("fill_first_name", TRUE), Ev("fill_last_name", TRUE),
                       Ev("fill_email", FALSE) >>
    /\ HasOk("fill_form", FALSE) /\ ~Has("submit_form")
    /\ HasOk("write_row", TRUE)
    /\ csv[Len(csv)].notes = "form_fill_failed"

\* ------------------------------------------ claims on the country selection
\* C22: select_country runs the typed strategy first and the scripted one
\* only when the typed one failed; it returns True exactly when one of the
\* two succeeded; no exception of a strategy leaves it: the first fill
\* follows its return whatever the strategies did.
C22_TypedThenScripted ==
    \A i \in DOMAIN trace :
        /\ trace[i].op = "select_country_by_typing" =>
              /\ i > 1 /\ trace[i - 1].op = "close_common_popups"
              /\ i < Len(trace)
              /\ trace[i + 1].op = IF trace[i].ok THEN "select_country"
                                   ELSE "select_country_by_js"
        /\ trace[i].op = "select_country_by_js" =>
              /\ i > 1 /\ trace[i - 1] = Ev("select_country_by_typing", FALSE)
              /\ i < Len(trace) /\ trace[i + 1].op = "select_country"
        /\ trace[i].op = "select_country" =>
              /\ i > 1 /\ trace[i - 1].op \in { "select_country_by_typing",
                                                "select_country_by_js" }
              /\ trace[i].ok = trace[i - 1].ok
              /\ i < Len(trace) /\ trace[i + 1].op = "fill_first_name"

\* An attempt whose typed strategy failed and whose scripted one selected
\* the country, and one step later the first name was filled.
C22_Witness ==
    /\ AttemptEnded
    /\ HasOk("select_country_by_typing", FALSE)
    /\ HasOk("select_country_by_js", TRUE)
    /\ HasOk("select_country", TRUE)
    /\ HasOk("fill_first_name", TRUE)

\* ----------------------------------------------- claims on the backoff count
\* C23: a backoff sleep is made only between a failed load and the load
\* that retries it: while the loop runs the sleeps made are one fewer than
\* the loads begun, a navigation that succeeded has slept once for each
\* load that failed, and one that failed altogether has slept
\* MAX_NAV_RETRIES - 1 times, none after its last load.
C23_BackoffOnlyBeforeRetry ==
    /\ pc = "navigate" => Len(backoffs) = nav_attempt - 1
    /\ (Returned /\ nav_result = "True") => Len(backoffs) = Len(nav_log) - 1
    /\ (Returned /\ nav_result = "False") =>
          /\ Len(nav_log) = config.MAX_NAV_RETRIES
          /\ Len(backoffs) = config.MAX_NAV_RETRIES - 1

\* ------------------------------------------- claims on the session's browser
\* C24: at the start of every attempt of a run the BrowserManager holds a
\* launched browser, whatever the attempts before it did, and no attempt
\* fails with BrowserNotLaunched.
C24_BrowserAtAttemptStart ==
    /\ pc = "new_context" => browser # 0
    /\ exc # "BrowserNotLaunched"

\* ------------------------------------------------ claims on the finally clause
WriteFailed == HasOk("write_row", FALSE)

\* C25: in the finally clause write_row is called before close_context; a
\* write_row that failed raises nothing: the context is closed all the same
\* (where the configuration closes it), the attempt returns what it was about
\* to return, and when that is True run goes on to the next number.
C25_WriteFailureHarmless ==
    /\ [](/\ Count("write_row") <= 1 /\ Count("close_context") <= 1
          /\ \A i \in DOMAIN trace :
                trace[i].op = "close_context" => i > 1 /\ trace[i - 1].op = "write_row"
          /\ AttemptEnded =>
                /\ Has("write_row")
                /\ ShouldClose => HasOk("close_context", TRUE) /\ context \notin open_contexts
                /\ WriteFailed => RowsOfAttempt = 0
          /\ (pc = "done" /\ ret = "True" /\ phone_numbers # << >>) =>
                attempted = phone_numbers)
    /\ [][ pc = "finally" =>
              /\ pc' = "return" /\ ret' = ret /\ exc' = exc
              /\ Has("write_row")' ]_vars
    /\ [][ (pc = "return" /\ WriteFailed /\ ret = "True" /\ phone_numbers # << >>) =>
              pc' = "run" ]_vars

\* The second attempt of a run has ended; the row write failed in both
\* attempts, and the context of each was closed.
C25_Witness ==
    /\ AttemptEnded /\ account_index = 2
    /\ io_errors = 2 /\ RowsOfRun = 0
    /\ WriteFailed /\ HasOk("close_context", TRUE)
    /\ open_contexts = {} /\ ret = "True"
====
